---- MODULE Spec2Model ----
(***************************************************************************)
(* Model of aldryn_forms/cms_plugins.py: the plugin classes that collect   *)
(* a form's fields from a tree of CMS plugin instances, build the django   *)
(* form field of each field plugin, and resolve the success redirect.      *)
(*                                                                         *)
(* Python values are encoded as follows.  An attribute that may be None    *)
(* is a set with at most one element: {} is None and {v} is the value v.   *)
(* A dict is a function from its keys.  A call either returns a value or   *)
(* raises: Return(v) and Raise(e).                                         *)
(***************************************************************************)
EXTENDS Integers, Sequences, FiniteSets, TLC

VARIABLES tree,      \* the plugin instances of one placeholder, by node index
          cur,       \* the most recent call: its method, its root, the
                     \* fields collected and the result
          instance,  \* the field plugin instance handed to get_form_field
          built,     \* the outcome of get_form_field on instance
          form,      \* the FormPlugin instance handed to get_success_url
          redirect   \* the outcome of get_success_url on form

vars == <<tree, cur, instance, built, form, redirect>>

----------------------------------------------------------------------------
(* Bounds *)

MaxNodes == 3      \* plugin instances in the placeholder
PkStep == 10       \* distance between the primary keys of consecutive nodes
MaxValue == 5      \* largest min_value / max_value an editor enters
MaxPages == 3      \* CMS pages a form may redirect to

----------------------------------------------------------------------------
(* Python values *)

None == {}
Some(v) == {v}
Val(o) == CHOOSE v \in o : TRUE

\* bool(x) of an int that may be None, and of a string that may be None
TruthyInt(o) == o # None /\ o # Some(0)
TruthyStr(o) == o # None /\ o # Some("")

Return(v) == [exc |-> "", value |-> v]
Raise(e) == [exc |-> e]
Raised(o) == o.exc # ""

EmptyDict == <<>>
\* form_fields = fields in place of form_fields.update(fields)
DictUpdate_replace(a, b) == b

\* a.update(b)
DictUpdate(a, b) ==
    [k \in DOMAIN a \cup DOMAIN b |-> IF k \in DOMAIN b THEN b[k] ELSE a[k]]

Digit(d) ==
    CASE d = 0 -> "0" [] d = 1 -> "1" [] d = 2 -> "2" [] d = 3 -> "3"
      [] d = 4 -> "4" [] d = 5 -> "5" [] d = 6 -> "6" [] d = 7 -> "7"
      [] d = 8 -> "8" [] d = 9 -> "9"

\* u'%d' % n for n >= 0
RECURSIVE FormatD(_)
FormatD(n) == IF n < 10 THEN Digit(n) ELSE FormatD(n \div 10) \o Digit(n % 10)

----------------------------------------------------------------------------
(* The plugin classes and method resolution *)

FieldKinds ==
    {"TextField", "BooleanField", "SelectField", "MultipleSelectField", "CaptchaField"}
ContainerKinds == {"FormPlugin", "Fieldset"}
\* "OtherPlugin" stands for a plugin class of another application
PluginKinds == ContainerKinds \cup FieldKinds \cup {"SubmitButton", "OtherPlugin"}

Base(cls) ==
    CASE cls = "FormElement" -> "CMSPluginBase"
      [] cls = "FieldContainer" -> "FormElement"
      [] cls = "FormPlugin" -> "FieldContainer"
      [] cls = "Fieldset" -> "FieldContainer"
      [] cls = "Field" -> "FormElement"
      [] cls = "TextField" -> "Field"
      [] cls = "BooleanField" -> "Field"
      [] cls = "SelectField" -> "Field"
      [] cls = "MultipleSelectField" -> "SelectField"
      [] cls = "CaptchaField" -> "Field"
      [] cls = "SubmitButton" -> "FormElement"
      [] OTHER -> "CMSPluginBase"

\* CaptchaField without its get_form_field
ClassDefines_nocaptcha(cls) ==
    CASE cls = "FormElement" -> {"get_form_fields"}
      [] cls = "FieldContainer" -> {"get_form_fields"}
      [] cls = "FormPlugin" -> {"get_form_class", "get_success_url"}
      [] cls = "Field" -> {"get_field_name", "get_form_fields", "get_form_field",
                           "get_error_messages"}
      [] cls = "TextField" -> {"get_form_field"}
      [] cls = "BooleanField" -> {"get_form_field"}
      [] cls = "SelectField" -> {"get_form_field"}
      [] cls = "MultipleSelectField" -> {"get_form_field"}
      [] cls = "SubmitButton" -> {"get_form_fields"}
      [] OTHER -> {}

\* the methods each class body defines
ClassDefines(cls) ==
    CASE cls = "FormElement" -> {"get_form_fields"}
      [] cls = "FieldContainer" -> {"get_form_fields"}
      [] cls = "FormPlugin" -> {"get_form_class", "get_success_url"}
      [] cls = "Field" -> {"get_field_name", "get_form_fields", "get_form_field",
                           "get_error_messages"}
      [] cls = "TextField" -> {"get_form_field"}
      [] cls = "BooleanField" -> {"get_form_field"}
      [] cls = "SelectField" -> {"get_form_field"}
      [] cls = "MultipleSelectField" -> {"get_form_field"}
      [] cls = "CaptchaField" -> {"get_form_field"}
      [] cls = "SubmitButton" -> {"get_form_fields"}
      [] OTHER -> {}

\* the class whose body supplies method for cls, "" when there is none
RECURSIVE Resolve(_, _)
Resolve(cls, method) ==
    IF method \in ClassDefines(cls) THEN cls
    ELSE IF cls = "CMSPluginBase" THEN ""
    ELSE Resolve(Base(cls), method)

\* the capability check left out
hasattr_always(cls, method) == TRUE

hasattr(cls, method) == Resolve(cls, method) # ""

\* allow_children of the plugin class
allow_children(cls) == cls \in ContainerKinds \cup {"OtherPlugin"}

----------------------------------------------------------------------------
(* Field: names, error messages and the form field of each kind *)

\* only the last digit of the primary key
get_field_name_lastdigit(inst) == "aldryn-forms-field-" \o Digit(inst.pk % 10)

get_field_name(inst) == "aldryn-forms-field-" \o FormatD(inst.pk)

get_error_messages(inst) ==
    IF TruthyStr(inst.required_message)
    THEN Some([required |-> Val(inst.required_message)])
    ELSE None

MinLengthValidator(limit) == [validator |-> "MinLengthValidator", limit_value |-> limit]
MinChoicesValidator(limit) == [validator |-> "MinChoicesValidator", limit_value |-> limit]
MaxChoicesValidator(limit) == [validator |-> "MaxChoicesValidator", limit_value |-> limit]

\* instance.option_set.all()
option_set_all(inst) == [options_of |-> inst.pk]

\* if instance.min_value is not None
TextField_get_form_field_notnone(inst) ==
    LET validators == IF inst.min_value # None
                      THEN <<MinLengthValidator(inst.min_value)>>
                      ELSE <<>>
        field == [field_class |-> "CharField",
                  max_length |-> inst.max_value,
                  label |-> inst.label,
                  help_text |-> inst.help_text,
                  required |-> inst.required,
                  error_messages |-> get_error_messages(inst),
                  validators |-> validators,
                  widget_attrs |-> EmptyDict]
    IN  Return(IF TruthyStr(inst.placeholder_text)
               THEN [field EXCEPT !.widget_attrs =
                        [k \in {"placeholder"} |-> Val(inst.placeholder_text)]]
               ELSE field)

TextField_get_form_field(inst) ==
    LET validators == IF TruthyInt(inst.min_value)
                      THEN <<MinLengthValidator(inst.min_value)>>
                      ELSE <<>>
        field == [field_class |-> "CharField",
                  max_length |-> inst.max_value,
                  label |-> inst.label,
                  help_text |-> inst.help_text,
                  required |-> inst.required,
                  error_messages |-> get_error_messages(inst),
                  validators |-> validators,
                  widget_attrs |-> EmptyDict]
    IN  Return(IF TruthyStr(inst.placeholder_text)
               THEN [field EXCEPT !.widget_attrs =
                        [k \in {"placeholder"} |-> Val(inst.placeholder_text)]]
               ELSE field)

BooleanField_get_form_field(inst) ==
    Return([field_class |-> "BooleanField",
            label |-> inst.label,
            help_text |-> inst.help_text,
            error_messages |-> get_error_messages(inst),
            required |-> inst.required])

SelectField_get_form_field(inst) ==
    Return([field_class |-> "ModelChoiceField",
            queryset |-> option_set_all(inst),
            label |-> inst.label,
            help_text |-> inst.help_text,
            error_messages |-> get_error_messages(inst),
            required |-> inst.required])

\* MaxChoicesValidator(limit_value=instance.max_value)
MultipleSelectField_get_form_field_max(inst) ==
    LET v1 == IF TruthyInt(inst.min_value)
              THEN <<MinChoicesValidator(inst.min_value)>>
              ELSE <<>>
        validators == IF TruthyInt(inst.max_value)
                      THEN Append(v1, MaxChoicesValidator(inst.max_value))
                      ELSE v1
    IN  Return([field_class |-> "ModelMultipleChoiceField",
                queryset |-> option_set_all(inst),
                label |-> inst.label,
                help_text |-> inst.help_text,
                required |-> inst.min_value,
                widget |-> "CheckboxSelectMultiple",
                validators |-> validators])

MultipleSelectField_get_form_field(inst) ==
    LET v1 == IF TruthyInt(inst.min_value)
              THEN <<MinChoicesValidator(inst.min_value)>>
              ELSE <<>>
        validators == IF TruthyInt(inst.max_value)
                      THEN Append(v1, MaxChoicesValidator(inst.min_value))
                      ELSE v1
    IN  Return([field_class |-> "ModelMultipleChoiceField",
                queryset |-> option_set_all(inst),
                label |-> inst.label,
                help_text |-> inst.help_text,
                required |-> inst.min_value,
                widget |-> "CheckboxSelectMultiple",
                validators |-> validators])

CaptchaField_get_form_field(inst) ==
    Return([field_class |-> "ReCaptchaField",
            label |-> inst.label,
            error_messages |-> get_error_messages(inst)])

\* self.get_form_field(instance=instance), dispatched on the plugin class
get_form_field(inst) ==
    LET impl == Resolve(inst.plugin_type, "get_form_field")
    IN  CASE impl = "TextField" -> TextField_get_form_field(inst)
          [] impl = "BooleanField" -> BooleanField_get_form_field(inst)
          [] impl = "SelectField" -> SelectField_get_form_field(inst)
          [] impl = "MultipleSelectField" -> MultipleSelectField_get_form_field(inst)
          [] impl = "CaptchaField" -> CaptchaField_get_form_field(inst)
          [] impl = "Field" -> Raise("NotImplementedError")
          [] OTHER -> Raise("AttributeError")

----------------------------------------------------------------------------
(* Collecting the form fields of a subtree *)

\* form_fields = {}
NewFormFields == EmptyDict

\* keyed by the label in place of the field name
Field_get_form_fields_bylabel(inst) ==
    LET field == get_form_field(inst)
    IN  IF Raised(field) THEN field
        ELSE Return([k \in {inst.label} |-> field.value])

Field_get_form_fields(inst) ==
    LET name == get_field_name(inst)
        field == get_form_field(inst)
    IN  IF Raised(field) THEN field
        ELSE Return([k \in {name} |-> field.value])

SubmitButton_get_form_fields(inst) == Return(EmptyDict)

RECURSIVE get_form_fields(_, _), UpdateFromChildren(_, _, _, _)

\* the loop of FieldContainer.get_form_fields from child i on
UpdateFromChildren(t, children, i, form_fields) ==
    IF i > Len(children) THEN Return(form_fields)
    ELSE LET child_plugin == t[children[i]].plugin_type
         IN  IF hasattr(child_plugin, "get_form_fields")
             THEN LET fields == get_form_fields(t, children[i])
                  IN  IF Raised(fields) THEN fields
                      ELSE UpdateFromChildren(t, children, i + 1,
                                              DictUpdate(form_fields, fields.value))
             ELSE UpdateFromChildren(t, children, i + 1, form_fields)

FieldContainer_get_form_fields(t, n) ==
    UpdateFromChildren(t, t[n].child_plugin_instances, 1, NewFormFields)

\* plugin.get_form_fields(instance=t[n]), dispatched on the plugin class
get_form_fields(t, n) ==
    LET impl == Resolve(t[n].plugin_type, "get_form_fields")
    IN  CASE impl = "FieldContainer" -> FieldContainer_get_form_fields(t, n)
          [] impl = "Field" -> Field_get_form_fields(t[n])
          [] impl = "SubmitButton" -> SubmitButton_get_form_fields(t[n])
          [] impl = "FormElement" -> Raise("NotImplementedError")
          [] OTHER -> Raise("AttributeError")

\* forms.forms.DeclarativeFieldsMetaclass('AldrynDynamicForm', (forms.Form,), fields)
get_form_class(t, n) ==
    LET fields == get_form_fields(t, n)
    IN  IF Raised(fields) THEN fields
        ELSE Return([name |-> "AldrynDynamicForm", bases |-> <<"Form">>,
                     attrs |-> fields.value])

----------------------------------------------------------------------------
(* The success redirect of a form *)

REDIRECT_TO_PAGE == "redirect_to_page"
REDIRECT_TO_URL == "redirect_to_url"

\* page.get_absolute_url() of the CMS page with the given id
get_absolute_url(page) == "/page-" \o FormatD(page) \o "/"

\* falls back to the url when the redirect type is unknown
get_success_url_fallback(inst) ==
    IF inst.redirect_type = Some(REDIRECT_TO_PAGE)
    THEN IF inst.page = None THEN Raise("AttributeError")
         ELSE Return(Some(get_absolute_url(Val(inst.page))))
    ELSE Return(inst.url)

get_success_url(inst) ==
    IF inst.redirect_type = Some(REDIRECT_TO_PAGE)
    THEN IF inst.page = None THEN Raise("AttributeError")
         ELSE Return(Some(get_absolute_url(Val(inst.page))))
    ELSE IF inst.redirect_type = Some(REDIRECT_TO_URL)
    THEN Return(inst.url)
    ELSE Raise("RuntimeError")

----------------------------------------------------------------------------
(* The inputs: plugin instances, content trees, form configurations *)

Nodes == 1 .. MaxNodes

\* the primary key of the plugin instance at a node index
PkOf(i) == (i - 1) * PkStep + 1

OptValues == {None} \cup {Some(v) : v \in 0 .. MaxValue}
OptMessages == {None, Some(""), Some("This field is required.")}
OptPlaceholders == {None, Some(""), Some("Your name")}

\* the attribute values of a models.FieldPlugin row
FieldAttrs ==
    [label : {"Name"}, help_text : {""}, placeholder_text : OptPlaceholders,
     required : BOOLEAN, required_message : OptMessages,
     min_value : OptValues, max_value : OptValues]

PluginInstance(pk, kind, children, a) ==
    [pk |-> pk, plugin_type |-> kind, child_plugin_instances |-> children,
     label |-> a.label, help_text |-> a.help_text,
     placeholder_text |-> a.placeholder_text,
     required |-> a.required, required_message |-> a.required_message,
     min_value |-> a.min_value, max_value |-> a.max_value]

FieldInstances ==
    {PluginInstance(PkOf(1), kind, <<>>, a) : kind \in FieldKinds, a \in FieldAttrs}

\* the attribute values the nodes of a tree carry: either everything set,
\* with min_value above max_value, or nothing set
TreeAttrs ==
    {a \in FieldAttrs :
        \/ /\ a.min_value = Some(MaxValue) /\ a.max_value = Some(1)
           /\ a.required /\ a.required_message = Some("This field is required.")
           /\ a.placeholder_text = Some("Your name")
        \/ /\ a.min_value = None /\ a.max_value = None
           /\ ~a.required /\ a.required_message = None
           /\ a.placeholder_text = None}

RECURSIVE SortedSeq(_)
SortedSeq(S) ==
    IF S = {} THEN <<>>
    ELSE LET m == CHOOSE x \in S : \A y \in S : x <= y
         IN  <<m>> \o SortedSeq(S \ {m})

\* parent[n] < n keeps the tree acyclic
ParentMaps == {p \in [Nodes \ {1} -> Nodes] : \A c \in Nodes \ {1} : p[c] < c}

\* node 1 is the form at the top
KindMaps == {k \in [Nodes -> PluginKinds] : k[1] = "FormPlugin"}

\* only a plugin with allow_children holds children
Trees ==
    {[n \in Nodes |->
        PluginInstance(PkOf(n), kp[1][n],
                       SortedSeq({c \in Nodes \ {1} : kp[2][c] = n}), a)] :
     kp \in {x \in KindMaps \X ParentMaps :
                \A c \in Nodes \ {1} : allow_children(x[1][x[2][c]])},
     a \in TreeAttrs}

OptRedirectTypes ==
    {None, Some(""), Some(REDIRECT_TO_PAGE), Some(REDIRECT_TO_URL), Some("redirect")}
OptPages == {None} \cup {Some(p) : p \in 1 .. MaxPages}
OptUrls == {None, Some(""), Some("/thanks/"), Some("http://example.com/done")}

FormInstances == [redirect_type : OptRedirectTypes, page : OptPages, url : OptUrls]

----------------------------------------------------------------------------
(* Collecting fields from a content tree *)

Init ==
    /\ tree \in Trees
    /\ cur = None
    /\ instance = None /\ built = None
    /\ form = None /\ redirect = None

\* a caller asks the plugin of node r for its form fields, whatever its class
CallGetFormFields(r) ==
    /\ LET fields == get_form_fields(tree, r)
       IN  /\ cur' = Some([method |-> "get_form_fields", root |-> r,
                           fields |-> fields, result |-> fields])
    /\ UNCHANGED <<tree, instance, built, form, redirect>>

\* a view asks the form plugin of node r for its form class
CallGetFormClass(r) ==
    /\ hasattr(tree[r].plugin_type, "get_form_class")
    /\ LET fields == get_form_fields(tree, r)
       IN  /\ cur' = Some([method |-> "get_form_class", root |-> r,
                           fields |-> fields, result |-> get_form_class(tree, r)])
    /\ UNCHANGED <<tree, instance, built, form, redirect>>

Next ==
    \/ \E r \in Nodes : CallGetFormFields(r)
    \/ \E r \in Nodes : CallGetFormClass(r)

Spec == Init /\ [][Next]_vars

----------------------------------------------------------------------------
(* Building the form field of one field plugin instance *)

InitField ==
    /\ instance \in {Some(i) : i \in FieldInstances}
    /\ built = None
    /\ tree = <<>> /\ cur = None
    /\ form = None /\ redirect = None

CallGetFormField ==
    /\ built = None
    /\ built' = Some(get_form_field(Val(instance)))
    /\ UNCHANGED <<tree, cur, instance, form, redirect>>

NextField == CallGetFormField

SpecField == InitField /\ [][NextField]_vars

----------------------------------------------------------------------------
(* Resolving the success redirect of one form plugin instance *)

InitRedirect ==
    /\ form \in {Some(f) : f \in FormInstances}
    /\ redirect = None
    /\ tree = <<>> /\ cur = None
    /\ instance = None /\ built = None

CallGetSuccessUrl ==
    /\ redirect = None
    /\ redirect' = Some(get_success_url(Val(form)))
    /\ UNCHANGED <<tree, cur, instance, built, form>>

NextRedirect == CallGetSuccessUrl

SpecRedirect == InitRedirect /\ [][NextRedirect]_vars

----------------------------------------------------------------------------
(* Vocabulary of the properties *)

KindOf(n) == tree[n].plugin_type
NameOf(n) == "aldryn-forms-field-" \o FormatD(tree[n].pk)

IsChildOf(c, p) ==
    \E i \in DOMAIN tree[p].child_plugin_instances :
        tree[p].child_plugin_instances[i] = c

\* the proper ancestors of n; a parent has a smaller index than its child
RECURSIVE Ancestors(_)
Ancestors(n) ==
    LET parents == {p \in Nodes : p < n /\ IsChildOf(n, p)}
    IN  parents \cup UNION {Ancestors(p) : p \in parents}

\* the nodes on the path from root down to n, both ends left out
Between(root, n) == {m \in Ancestors(n) : root \in Ancestors(m)}

\* the field nodes below root whose path to root runs through containers only
ReachableFields(root) ==
    {n \in Nodes : /\ KindOf(n) \in FieldKinds
                   /\ root \in Ancestors(n)
                   /\ \A m \in Between(root, n) : KindOf(m) \in ContainerKinds}

SkippedKinds == {"SubmitButton", "OtherPlugin"}

\* the tree without the children that are submit buttons or foreign plugins
Pruned ==
    [n \in Nodes |->
        [tree[n] EXCEPT !.child_plugin_instances =
            SelectSeq(@, LAMBDA c : KindOf(c) \notin SkippedKinds)]]

IsMinValidator(v) == v.validator \in {"MinLengthValidator", "MinChoicesValidator"}
IsMaxValidator(v) == v.validator = "MaxChoicesValidator"
HasValidator(field, Is(_)) == \E k \in DOMAIN field.validators : Is(field.validators[k])

\* the error_messages a form field was constructed with, None when not passed
ErrorMessagesOf(field) ==
    IF "error_messages" \in DOMAIN field THEN field.error_messages ELSE None

----------------------------------------------------------------------------
(* Properties of the field collection, under Spec *)

\* C1: get_form_fields on a container root returns a mapping whose keys are
\* exactly the names aldryn-forms-field-<pk> of the field nodes reachable from
\* the root through container nodes only.
C1_KeysAreReachableFields ==
    \A c \in cur :
        KindOf(c.root) \in ContainerKinds =>
            /\ ~Raised(c.fields)
            /\ DOMAIN c.fields.value = {NameOf(n) : n \in ReachableFields(c.root)}

C1_Witness ==
    \E c \in cur :
        /\ KindOf(c.root) = "FormPlugin"
        /\ \E n \in ReachableFields(c.root) : Between(c.root, n) # {}
        /\ \E n \in Nodes : NameOf(n) \in DOMAIN c.fields.value

\* what C5 says of the children of a container: submit buttons and children
\* without get_form_fields add no entry and nothing below them is collected
SkippedChildrenAddNothing(c) ==
    KindOf(c.root) \in ContainerKinds =>
        /\ ~Raised(c.fields)
        /\ c.fields = get_form_fields(Pruned, c.root)
        /\ \A n \in Nodes :
              (/\ c.root \in Ancestors(n)
               /\ \E m \in {n} \cup Between(c.root, n) :
                     KindOf(m) \in SkippedKinds)
              => NameOf(n) \notin DOMAIN c.fields.value

\* C5 as stated: get_form_fields on a submit button or on any other node that
\* is neither a container nor a field returns the empty mapping; under a
\* container, submit buttons and children without get_form_fields add no
\* entry and nothing below them is collected.
C5_AnyOtherNodeReturnsEmpty ==
    \A c \in cur :
        /\ KindOf(c.root) \notin ContainerKinds \cup FieldKinds =>
              c.fields = Return(EmptyDict)
        /\ SkippedChildrenAddNothing(c)

\* C5 amended: get_form_fields on a submit button returns the empty mapping;
\* on a node whose plugin class has no get_form_fields the call raises
\* AttributeError; under a container, submit buttons and children without
\* get_form_fields add no entry and nothing below them is collected.
C5_SkippedChildrenAddNothing ==
    \A c \in cur :
        /\ KindOf(c.root) = "SubmitButton" => c.fields = Return(EmptyDict)
        /\ ~hasattr(KindOf(c.root), "get_form_fields") =>
              c.fields = Raise("AttributeError")
        /\ SkippedChildrenAddNothing(c)

C5_Witness ==
    \E c \in cur :
        /\ KindOf(c.root) \in ContainerKinds
        /\ \E o \in Nodes, n \in Nodes :
              /\ KindOf(o) = "OtherPlugin" /\ IsChildOf(o, c.root)
              /\ KindOf(n) \in FieldKinds /\ IsChildOf(n, o)
        /\ c.fields = Return(EmptyDict)

\* C6: get_form_fields on a field node returns exactly one entry: its key is
\* aldryn-forms-field-<pk> of that node and its value the form field that
\* get_form_field builds for the node.
C6_LeafHasOneEntry ==
    \A c \in cur :
        KindOf(c.root) \in FieldKinds =>
            /\ ~Raised(c.fields)
            /\ DOMAIN c.fields.value = {NameOf(c.root)}
            /\ c.fields.value[NameOf(c.root)] = get_form_field(tree[c.root]).value

C6_Witness ==
    \E c \in cur :
        /\ KindOf(c.root) = "MultipleSelectField"
        /\ Cardinality(DOMAIN c.fields.value) = 1

\* C7: distinct nodes have distinct field names, and the collected mapping
\* has as many entries as there are field nodes reachable through containers.
C7_NamesInjective ==
    /\ \A m \in DOMAIN tree, n \in DOMAIN tree :
          m # n => get_field_name(tree[m]) # get_field_name(tree[n])
    /\ \A c \in cur :
          KindOf(c.root) \in ContainerKinds =>
              /\ ~Raised(c.fields)
              /\ Cardinality(DOMAIN c.fields.value)
                    = Cardinality(ReachableFields(c.root))

C7_Witness ==
    \E c \in cur :
        /\ KindOf(c.root) \in ContainerKinds
        /\ Cardinality(ReachableFields(c.root)) >= 2
        /\ Cardinality(DOMAIN c.fields.value) >= 2

----------------------------------------------------------------------------
(* Properties of the form field of one plugin instance, under SpecField *)

\* C2: the form field of a MultipleSelectField has a min-choices validator
\* exactly when min_value is truthy and a max-choices validator exactly when
\* max_value is truthy, and both carry min_value as their limit.
C2_BothLimitsAreMinValue ==
    \A inst \in instance, b \in built :
        inst.plugin_type = "MultipleSelectField" =>
            /\ ~Raised(b)
            /\ HasValidator(b.value, IsMinValidator) <=> TruthyInt(inst.min_value)
            /\ HasValidator(b.value, IsMaxValidator) <=> TruthyInt(inst.max_value)
            /\ \A k \in DOMAIN b.value.validators :
                  b.value.validators[k].limit_value = inst.min_value

C2_Witness ==
    \E inst \in instance, b \in built :
        /\ inst.plugin_type = "MultipleSelectField"
        /\ inst.min_value = Some(2) /\ inst.max_value = Some(MaxValue)
        /\ Len(b.value.validators) = 2

\* C3: the form field of every field kind is built with the required message
\* of its instance as the 'required' error message when that message is set,
\* and with no override otherwise.
C3_EveryKindGetsErrorMessages ==
    \A inst \in instance, b \in built :
        /\ ~Raised(b)
        /\ ErrorMessagesOf(b.value) =
              IF TruthyStr(inst.required_message)
              THEN Some([required |-> Val(inst.required_message)])
              ELSE None

\* C4 as stated: the form field of a TextField has required and max_length of
\* the instance, a min-length validator exactly when min_value is set (0
\* included), and the placeholder exactly when placeholder_text is present.
C4_MinValidatorIffSet ==
    \A inst \in instance, b \in built :
        inst.plugin_type = "TextField" =>
            /\ ~Raised(b)
            /\ b.value.required = inst.required
            /\ b.value.max_length = inst.max_value
            /\ HasValidator(b.value, IsMinValidator) <=> inst.min_value # None
            /\ \A k \in DOMAIN b.value.validators :
                  b.value.validators[k] = MinLengthValidator(inst.min_value)
            /\ "placeholder" \in DOMAIN b.value.widget_attrs
                  <=> TruthyStr(inst.placeholder_text)

\* C4 amended: as C4, with the min-length validator present exactly when
\* min_value is set and not 0.
C4_MinValidatorIffTruthy ==
    \A inst \in instance, b \in built :
        inst.plugin_type = "TextField" =>
            /\ ~Raised(b)
            /\ b.value.required = inst.required
            /\ b.value.max_length = inst.max_value
            /\ HasValidator(b.value, IsMinValidator) <=> TruthyInt(inst.min_value)
            /\ \A k \in DOMAIN b.value.validators :
                  b.value.validators[k] = MinLengthValidator(inst.min_value)
            /\ "placeholder" \in DOMAIN b.value.widget_attrs
                  <=> TruthyStr(inst.placeholder_text)

C4_Witness ==
    \E inst \in instance, b \in built :
        /\ inst.plugin_type = "TextField"
        /\ inst.min_value = Some(0) /\ inst.max_value = Some(MaxValue)
        /\ inst.placeholder_text = Some("Your name")
        /\ b.value.validators = <<>>

----------------------------------------------------------------------------
(* Properties of the success redirect, under SpecRedirect *)

\* C9: get_success_url returns the URL of the configured page for the
\* redirect-to-page type, the configured url for the redirect-to-URL type, and
\* raises RuntimeError for every other redirect type.
C9_RedirectByType ==
    \A f \in form, r \in redirect :
        /\ (f.redirect_type = Some(REDIRECT_TO_PAGE) /\ f.page # None) =>
              r = Return(Some(get_absolute_url(Val(f.page))))
        /\ f.redirect_type = Some(REDIRECT_TO_URL) => r = Return(f.url)
        /\ f.redirect_type \notin {Some(REDIRECT_TO_PAGE), Some(REDIRECT_TO_URL)} =>
              r = Raise("RuntimeError")

C9_Witness ==
    \E f \in form, r \in redirect :
        /\ f.redirect_type = Some("redirect")
        /\ f.url = Some("/thanks/") /\ f.page # None
        /\ Raised(r)

====
